---- MODULE Spec2Model ----
(***************************************************************************)
(* Sale-code issuance and redemption of the shop's point-of-sale           *)
(* application: the request handlers /api/scan/create, /api/pos/create,    *)
(* /api/scan/confirm, /api/pos/confirm-scan and /api/admin/settings/scan,  *)
(* running concurrently against the tables sales, sale_items,              *)
(* shop_settings and products.  Every await on the storage client is one   *)
(* step of a handler, so handlers interleave exactly at their awaits.      *)
(***************************************************************************)
EXTENDS Integers, Sequences, FiniteSets, TLC

\* ------------------------------------------------------------------ bounds

\* Number of request slots: handlers that can be in flight at the same time.
NumProcs == 2
\* Number of codes genCode can return in the model (the code draws from
\* MinCode .. 999999; the model draws from MinCode .. MinCode + NumCodes - 1).
NumCodes == 2
\* Number of requests the clients send in one run.
MaxRequests == 3
\* Number of statements the storage layer fails for a reason of its own
\* (a timeout, a constraint other than the code's) in one run.
MaxFaults == 1
MaxPolls == 2

\* ------------------------------------------------------- program constants

\* genCode: Math.floor(100000 + Math.random() * 900000), lowest value.
MinCode == 100000
\* for (let attempt = 0; attempt < 6; attempt++)
MaxAttempts == 6

Procs == 1 .. NumProcs
CodeSpace == MinCode .. (MinCode + NumCodes - 1)
\* A code no generated sale has ("0000" of the lookup scenario).
UnknownCode == 0
\* body.code absent: String(body.code || "").trim() is the empty string.
EmptyCode == -1

\* Authenticated identities; NoUser is a request without a session.
Staff == {"s1", "s2"}
NoUser == "null"

\* ---------------------------------------------------- JavaScript values

JNum(n) == [t |-> "number", n |-> n, s |-> ""]
JStr(s) == [t |-> "string", n |-> 0, s |-> s]
JNull == [t |-> "null", n |-> 0, s |-> ""]

\* A JavaScript number: finite, NaN or Infinity.
Fin(n) == [k |-> "fin", v |-> n]
NaN == [k |-> "nan", v |-> 0]
Infinity == [k |-> "inf", v |-> 0]

\* x || 0 keeps a truthy x: a non-zero number, a non-empty string.
Truthy(j) == \/ j.t = "number" /\ j.n # 0
             \/ j.t = "string" /\ j.s # ""

\* Number(x) for the JSON values of the model.
ToNumber(j) ==
    CASE j.t = "number" -> Fin(j.n)
      [] j.t = "null" -> Fin(0)
      [] j.t = "string" /\ j.s = "" -> Fin(0)
      [] j.t = "string" /\ j.s = "1" -> Fin(1)
      [] j.t = "string" /\ j.s = "2" -> Fin(2)
      [] j.t = "string" /\ j.s = "Infinity" -> Infinity
      [] OTHER -> NaN

\* String(x || "").trim() for the product ids of the model.
Trim(s) ==
    CASE s = " A " -> "A"
      [] s = " " -> ""
      [] OTHER -> s

\* Number.isFinite
IsFinite(x) == x.k = "fin"

\* One element of body.items as the client sent it.
RawItem(pid, q) == [product_id |-> pid, qty |-> q]
\* An element that also carries a price and a total of the client's own.
RawItemPriced(pid, q, price) ==
    [product_id |-> pid, qty |-> q, unit_price |-> price, line_total |-> price]
\* The price the client put on the first element of body.items, 0 if none.
ClientPrice(itemsRaw) ==
    IF Len(itemsRaw) > 0 /\ "unit_price" \in DOMAIN itemsRaw[1]
    THEN itemsRaw[1].unit_price ELSE 0

\* .map(it => ({product_id: String(it.product_id || "").trim(),
\*              qty: Number(it.qty || 0)}))
MapItem(it) ==
    [product_id |-> Trim(it.product_id),
     qty |-> ToNumber(IF Truthy(it.qty) THEN it.qty ELSE JNum(0))]

\* Mutant of ItemOk: the filter without x.qty > 0.
ItemOk_NoPositiveCheck(x) == x.product_id # "" /\ IsFinite(x.qty)

\* The filter's predicate: x.product_id && Number.isFinite(x.qty) && x.qty > 0
ItemOk(x) == x.product_id # "" /\ IsFinite(x.qty) /\ x.qty.v > 0

RECURSIVE FilterSeq(_, _)
FilterSeq(s, i) ==
    IF i > Len(s) THEN <<>>
    ELSE IF ItemOk(MapItem(s[i]))
         THEN <<[product_id |-> MapItem(s[i]).product_id, qty |-> MapItem(s[i]).qty.v]>>
              \o FilterSeq(s, i + 1)
         ELSE FilterSeq(s, i + 1)

\* const items = itemsRaw.map(...).filter(...)
ParseItems(itemsRaw) == FilterSeq(itemsRaw, 1)

\* The request bodies' item lists the model draws from.
ItemLists ==
    { <<>>,
      << RawItem("A", JNum(2)) >>,
      << RawItem("A", JNum(2)), RawItem("A", JNum(0)) >>,
      << RawItem("A", JStr("abc")) >>,
      << RawItem("A", JStr("Infinity")) >>,
      << RawItem(" ", JNum(1)) >>,
      << RawItem(" A ", JStr("2")) >>,
      << RawItem("A", JNum(1)), RawItem("M", JNum(1)) >> }

\* ------------------------------------------------------- storage errors

\* Messages the storage client can return for a failed statement.
DupCodeMsg == "duplicate key value violates unique constraint \"sales_public_code_key\""
DupKeyMsg == "duplicate key value violates unique constraint \"sales_pkey\""
TimeoutMsg == "canceling statement due to statement timeout"
MultiRowMsg == "JSON object requested, multiple (or no) rows returned"

\* Errors an insert into sales can fail with whatever the row is.
OtherInsertMsgs == {DupKeyMsg, TimeoutMsg}

\* msg.toLowerCase().includes(word), for the messages of the model.
Includes(msg, word) ==
    CASE msg = DupCodeMsg -> word \in {"duplicate", "unique", "public_code"}
      [] msg = DupKeyMsg -> word \in {"duplicate", "unique"}
      [] OTHER -> FALSE

\* const isDup = msg.includes("duplicate") || msg.includes("unique")
\*            || msg.includes("public_code")
IsDup(msg) ==
    Includes(msg, "duplicate") \/ Includes(msg, "unique") \/ Includes(msg, "public_code")

\* ------------------------------------------------------------------ state

VARIABLES
    sales,          \* table sales, in insertion order; a row's id is its index
    sale_items,     \* table sale_items: a set of rows, n the row's place in its batch
    shop_settings,  \* table shop_settings: no row, or the row with id 1
    products,       \* table products: product id -> price
    req,            \* the handler running in each request slot
    started,        \* requests received so far
    page,           \* the customer's browser tab: the scan page and its fetches
    faults          \* statements the storage layer has failed so far

vars == <<sales, sale_items, shop_settings, products, req, started, faults, page>>
tables == <<sales, sale_items, shop_settings, products>>

\* A request arrives.
Arrive == started < MaxRequests /\ started' = started + 1
\* The storage layer fails the statement / executes it.
Fault == faults < MaxFaults /\ faults' = faults + 1
NoFault == faults' = faults

NoResp == [status |-> 0, error |-> "", ret |-> ""]
\* NextResponse.json(..., {status}); ret names the return statement taken.
Resp(status, error, ret) == [status |-> status, error |-> error, ret |-> ret]

NoSale == [id |-> 0, status |-> "", payment_status |-> "", source |-> ""]

\* A request slot with no handler running.
Idle ==
    [kind |-> "idle", pc |-> "idle", uid |-> NoUser, items |-> <<>>,
     priceMap |-> {}, attempt |-> 0, code |-> EmptyCode, lastErr |-> "",
     sale |-> NoSale, resp |-> NoResp,
     \* Bookkeeping of what the handler has done so far: the length of
     \* body.items, the calls of genCode, the inserts into sales attempted,
     \* the ids of the sales rows inserted, the sale_items rows inserted,
     \* whether the generated code was unused when generated, whether an
     \* insert lost to a code taken in between, (confirmation and lookup
     \* requests) the status of every sale when the request arrived, and
     \* (create requests) the price the client put on its first item.
     rawLen |-> 0, gens |-> 0, tries |-> 0, inserted |-> {}, itemRows |-> 0,
     codeFree |-> FALSE, lostRace |-> FALSE, seen |-> <<>>, clientPrice |-> 0,
     \* The body of a lookup response: paid and sale.sale_items.
     paid |-> FALSE, lines |-> {}]

\* The browser tab before any page is opened, nothing saved in
\* localStorage: no session yet, no code
\* tracked (code null), saleState "unknown", enabled null, no effect, no
\* fetch in flight.  nav is the last navigation and where the middleware
\* sent it, redirected the paths of the requests the middleware redirected,
\* last the poll whose response was last applied, okAfter whether the
\* response of a poll issued after the confirmation of the tracked sale
\* has been applied.
NoNav == [path |-> <<>>, to |-> <<>>]
NoPoll == [id |-> 0, code |-> EmptyCode, paid |-> FALSE]
Closed ==
    [open |-> FALSE, session |-> [user |-> NoUser, active |-> FALSE,
                                   force_password_change |-> FALSE, role |-> ""],
     nav |-> NoNav, enabled |-> "null", busy |-> FALSE, slot |-> 0,
     code |-> EmptyCode, saleState |-> "unknown",
     eff |-> 0, effCode |-> EmptyCode, effs |-> 0,
     issued |-> 0, polls |-> {},
     redirected |-> {}, last |-> NoPoll, okAfter |-> FALSE]

\* The status of every sale, by id.
Statuses == [i \in 1 .. Len(sales) |-> sales[i].status]

\* Empty sale tables, the one product of the catalog, no request yet.
InitTables ==
    /\ sales = <<>>
    /\ sale_items = {}
    /\ shop_settings \in {{}, {[id |-> 1, enable_customer_scan |-> TRUE]},
                          {[id |-> 1, enable_customer_scan |-> FALSE]}}
    /\ products = [id \in {"A"} |-> 10]
    /\ req = [p \in Procs |-> Idle]
    /\ started = 0
    /\ page = Closed

Init == InitTables /\ faults = 0

\* return NextResponse.json(...): the handler ends with this response.
Return(p, r) == req' = [req EXCEPT ![p].pc = "done", ![p].resp = r]

\* The response has been sent; the slot is free for the next request.
Finish(p) ==
    /\ req[p].pc = "done"
    /\ req' = [req EXCEPT ![p] = Idle]
    /\ UNCHANGED <<tables, started, faults>>

\* ------------------------------------------------------- storage layer

\* Mutant of UniqueViolation: a table without the constraint.
UniqueViolation_Never(code) == FALSE

\* The unique constraint on sales.public_code: an insert of a row whose code
\* some row of the table already has is rejected.  Both create handlers run
\* the retry loop, the manual one for rows inserted as PAID, and both confirm
\* handlers read one row by public_code, so the constraint covers every row.
UniqueViolation(code) == \E i \in 1 .. Len(sales) : sales[i].public_code = code

\* The rows .eq("public_code", code) matches.
RowsWithCode(code) == {i \in 1 .. Len(sales) : sales[i].public_code = code}

\* ---------------------------------------------------- sale creation

\* Mutant of ScanSaleRow: the scan sale is inserted as paid.
ScanSaleRow_Paid(code) ==
    [id |-> Len(sales) + 1, public_code |-> code, source |-> "CUSTOMER_SCAN",
     status |-> "PAID", payment_status |-> "CONFIRMED", staff_id |-> NoUser]

\* The row /api/scan/create inserts.
ScanSaleRow(code) ==
    [id |-> Len(sales) + 1, public_code |-> code, source |-> "CUSTOMER_SCAN",
     status |-> "PENDING", payment_status |-> "PENDING", staff_id |-> NoUser]

\* The row /api/pos/create inserts.
ManualSaleRow(code, uid) ==
    [id |-> Len(sales) + 1, public_code |-> code, source |-> "STAFF_MANUAL",
     status |-> "PAID", payment_status |-> "CONFIRMED", staff_id |-> uid]

\* priceMap.get(product_id) is undefined
NoPrice(priceMap, pid) == ~ \E r \in priceMap : r.id = pid
PriceOf(priceMap, pid) == (CHOOSE r \in priceMap : r.id = pid).price

\* Mutant of Payload: line_total without the quantity.
Payload_TotalIsUnit(items, priceMap, saleId) ==
    {[sale_id |-> saleId, n |-> i, product_id |-> items[i].product_id, qty |-> items[i].qty,
      unit_price_at_time |-> PriceOf(priceMap, items[i].product_id),
      line_total |-> PriceOf(priceMap, items[i].product_id)] :
        i \in 1 .. Len(items)}

\* items.map(it => ({sale_id, product_id, qty, unit_price_at_time: unit,
\*                   line_total: unit * qty}))
Payload(items, priceMap, saleId) ==
    {[sale_id |-> saleId, n |-> i, product_id |-> items[i].product_id, qty |-> items[i].qty,
      unit_price_at_time |-> PriceOf(priceMap, items[i].product_id),
      line_total |-> PriceOf(priceMap, items[i].product_id) * items[i].qty] :
        i \in 1 .. Len(items)}

\* Mutant of ScanCreateStart: the sale row is inserted before the items are
\* validated.
ScanCreateStart_InsertFirst(p, lists) ==
    /\ req[p].pc = "idle"
    /\ Arrive
    /\ \E raw \in lists, code \in CodeSpace :
          /\ ~ UniqueViolation(code)
          /\ sales' = Append(sales, ScanSaleRow(code))
          /\ IF Len(ParseItems(raw)) = 0
             THEN req' = [req EXCEPT ![p] = [Idle EXCEPT !.kind = "scan_create",
                             !.rawLen = Len(raw), !.clientPrice = ClientPrice(raw), !.pc = "done",
                             !.inserted = {Len(sales) + 1},
                             !.resp = Resp(400, "Invalid items.", "INVALID_ITEMS")]]
             ELSE req' = [req EXCEPT ![p] = [Idle EXCEPT !.kind = "scan_create",
                             !.items = ParseItems(raw),
                             !.rawLen = Len(raw), !.clientPrice = ClientPrice(raw), !.inserted = {Len(sales) + 1},
                             !.pc = "settings"]]
    /\ UNCHANGED <<sale_items, shop_settings, products, faults>>

\* /api/scan/create receives a request: the body is parsed and the items
\* are validated before the first await.
ScanCreateStart(p, lists) ==
    /\ req[p].pc = "idle"
    /\ Arrive
    /\ \E raw \in lists :
          IF Len(ParseItems(raw)) = 0
          THEN req' = [req EXCEPT ![p] = [Idle EXCEPT !.kind = "scan_create",
                          !.items = ParseItems(raw), !.rawLen = Len(raw), !.clientPrice = ClientPrice(raw), !.pc = "done",
                          !.resp = Resp(400, "Invalid items.", "INVALID_ITEMS")]]
          ELSE req' = [req EXCEPT ![p] = [Idle EXCEPT !.kind = "scan_create",
                          !.items = ParseItems(raw), !.rawLen = Len(raw), !.clientPrice = ClientPrice(raw), !.pc = "settings"]]
    /\ UNCHANGED <<tables, faults>>

\* Mutant of ScanCreateSettings: only a row whose flag is false turns scan
\* checkout off, a missing row does not.
ScanCreateSettings_MissingRowIsOn(p) ==
    /\ req[p].kind = "scan_create" /\ req[p].pc = "settings"
    /\ \/ Fault /\ Return(p, Resp(400, TimeoutMsg, "SETTINGS_ERROR"))
       \/ /\ NoFault
          /\ IF \A r \in shop_settings : r.enable_customer_scan
             THEN req' = [req EXCEPT ![p].pc = "prices"]
             ELSE Return(p, Resp(403, "Scan checkout is turned off.", "SCAN_DISABLED"))
    /\ UNCHANGED <<tables, started>>

\* /api/scan/create reads shop_settings.enable_customer_scan.
ScanCreateSettings(p) ==
    /\ req[p].kind = "scan_create" /\ req[p].pc = "settings"
    /\ \/ Fault /\ Return(p, Resp(400, TimeoutMsg, "SETTINGS_ERROR"))
       \/ /\ NoFault
          /\ IF \E r \in shop_settings : r.enable_customer_scan
             THEN req' = [req EXCEPT ![p].pc = "prices"]
             ELSE Return(p, Resp(403, "Scan checkout is turned off.", "SCAN_DISABLED"))
    /\ UNCHANGED <<tables, started>>

\* Mutant of PosCreateStart: the manual flow gated by the scan switch.
PosCreateStart_Gated(p, callers, lists) ==
    /\ req[p].pc = "idle"
    /\ Arrive
    /\ \E uid \in callers, raw \in lists :
          IF uid = NoUser
          THEN req' = [req EXCEPT ![p] = [Idle EXCEPT !.kind = "pos_create",
                          !.items = ParseItems(raw), !.rawLen = Len(raw), !.clientPrice = ClientPrice(raw), !.pc = "done",
                          !.resp = Resp(401, "Unauthorized", "UNAUTHORIZED")]]
          ELSE IF Len(ParseItems(raw)) = 0
          THEN req' = [req EXCEPT ![p] = [Idle EXCEPT !.kind = "pos_create",
                          !.uid = uid, !.items = ParseItems(raw), !.rawLen = Len(raw), !.clientPrice = ClientPrice(raw), !.pc = "done",
                          !.resp = Resp(400, "Invalid items.", "INVALID_ITEMS")]]
          ELSE IF ~ \E r \in shop_settings : r.enable_customer_scan
          THEN req' = [req EXCEPT ![p] = [Idle EXCEPT !.kind = "pos_create",
                          !.uid = uid, !.items = ParseItems(raw), !.rawLen = Len(raw), !.clientPrice = ClientPrice(raw), !.pc = "done",
                          !.resp = Resp(403, "Scan checkout is turned off.", "SCAN_DISABLED")]]
          ELSE req' = [req EXCEPT ![p] = [Idle EXCEPT !.kind = "pos_create",
                          !.uid = uid, !.items = ParseItems(raw), !.rawLen = Len(raw), !.clientPrice = ClientPrice(raw), !.pc = "prices"]]
    /\ UNCHANGED <<tables, faults>>

\* /api/pos/create receives a request: the session is checked, then the
\* body is parsed and the items are validated.
PosCreateStart(p, callers, lists) ==
    /\ req[p].pc = "idle"
    /\ Arrive
    /\ \E uid \in callers, raw \in lists :
          IF uid = NoUser
          THEN req' = [req EXCEPT ![p] = [Idle EXCEPT !.kind = "pos_create",
                          !.items = ParseItems(raw), !.rawLen = Len(raw), !.clientPrice = ClientPrice(raw), !.pc = "done",
                          !.resp = Resp(401, "Unauthorized", "UNAUTHORIZED")]]
          ELSE IF Len(ParseItems(raw)) = 0
          THEN req' = [req EXCEPT ![p] = [Idle EXCEPT !.kind = "pos_create",
                          !.uid = uid, !.items = ParseItems(raw), !.rawLen = Len(raw), !.clientPrice = ClientPrice(raw), !.pc = "done",
                          !.resp = Resp(400, "Invalid items.", "INVALID_ITEMS")]]
          ELSE req' = [req EXCEPT ![p] = [Idle EXCEPT !.kind = "pos_create",
                          !.uid = uid, !.items = ParseItems(raw), !.rawLen = Len(raw), !.clientPrice = ClientPrice(raw), !.pc = "prices"]]
    /\ UNCHANGED <<tables, faults>>

\* Both create handlers: the batch price lookup
\* .from("products").select("id, price").in("id", ids) fills priceMap.
CreatePrices(p) ==
    /\ req[p].kind \in {"scan_create", "pos_create"} /\ req[p].pc = "prices"
    /\ \/ /\ Fault
          /\ Return(p, Resp(400, IF req[p].kind = "scan_create"
                                 THEN "price lookup failed" ELSE TimeoutMsg, "PRICE_ERROR"))
       \/ LET items == req[p].items
              ids == {items[i].product_id : i \in 1 .. Len(items)}
          IN /\ NoFault
             /\ req' = [req EXCEPT ![p].pc = "gen",
                           ![p].priceMap = {[id |-> id, price |-> products[id]] :
                                               id \in ids \cap DOMAIN products}]
    /\ UNCHANGED <<tables, started>>

\* Mutant of CreateGenCode: the loop runs while attempt <= 6.
CreateGenCode_OffByOne(p) ==
    /\ req[p].kind \in {"scan_create", "pos_create"} /\ req[p].pc = "gen"
    /\ IF req[p].attempt <= MaxAttempts
       THEN \E code \in CodeSpace :
               req' = [req EXCEPT ![p].pc = "insert", ![p].code = code, ![p].gens = @ + 1,
                          ![p].codeFree = ~ UniqueViolation(code)]
       ELSE Return(p, Resp(400, req[p].lastErr, "RETRY_EXHAUSTED"))
    /\ UNCHANGED <<tables, started, faults>>

\* Both create handlers: the head of the retry loop.  While attempt < 6 a
\* code is generated; after the sixth failed attempt the loop is left and
\* the last error is returned.
CreateGenCode(p) ==
    /\ req[p].kind \in {"scan_create", "pos_create"} /\ req[p].pc = "gen"
    /\ IF req[p].attempt < MaxAttempts
       THEN \E code \in CodeSpace :
               req' = [req EXCEPT ![p].pc = "insert", ![p].code = code, ![p].gens = @ + 1,
                          ![p].codeFree = ~ UniqueViolation(code)]
       ELSE Return(p, Resp(400, req[p].lastErr, "RETRY_EXHAUSTED"))
    /\ UNCHANGED <<tables, started, faults>>

\* Mutant of CreateInsertFailed: every insert error ends the request.
CreateInsertFailed_NoRetry(p, msg) ==
    /\ req' = [req EXCEPT ![p].pc = "done", ![p].lastErr = msg, ![p].tries = @ + 1,
                   ![p].resp = Resp(400, msg, "INSERT_ERROR")]
    /\ UNCHANGED <<sales, sale_items>>

\* Mutant of CreateInsertFailed: the rejected insert leaves its row behind.
CreateInsertFailed_LeavesRow(p, msg) ==
    /\ IF IsDup(msg)
       THEN req' = [req EXCEPT ![p].pc = "gen", ![p].attempt = @ + 1,
                       ![p].lastErr = msg, ![p].tries = @ + 1,
                       ![p].lostRace = @ \/ (msg = DupCodeMsg /\ req[p].codeFree)]
       ELSE req' = [req EXCEPT ![p].pc = "done", ![p].lastErr = msg, ![p].tries = @ + 1,
                       ![p].resp = Resp(400, msg, "INSERT_ERROR")]
    /\ sales' = Append(sales, ScanSaleRow(req[p].code))
    /\ UNCHANGED sale_items

\* if (saleErr) { lastErr = saleErr; if (isDup) continue; return 400 }
CreateInsertFailed(p, msg) ==
    /\ IF IsDup(msg)
       THEN req' = [req EXCEPT ![p].pc = "gen", ![p].attempt = @ + 1,
                       ![p].lastErr = msg, ![p].tries = @ + 1,
                       ![p].lostRace = @ \/ (msg = DupCodeMsg /\ req[p].codeFree)]
       ELSE req' = [req EXCEPT ![p].pc = "done", ![p].lastErr = msg, ![p].tries = @ + 1,
                       ![p].resp = Resp(400, msg, "INSERT_ERROR")]
    /\ UNCHANGED <<sales, sale_items>>

\* The sale row is in; the sale_items payload is built.  A product without a
\* price throws, and the catch block answers 500.
CreateInserted(p, row) ==
    LET items == req[p].items IN
    /\ sales' = Append(sales, row)
    /\ IF \E i \in 1 .. Len(items) : NoPrice(req[p].priceMap, items[i].product_id)
       THEN req' = [req EXCEPT ![p].pc = "done", ![p].tries = @ + 1,
                       ![p].inserted = @ \cup {row.id},
                       ![p].sale = [NoSale EXCEPT !.id = row.id],
                       ![p].resp = Resp(500, "Missing price for product", "MISSING_PRODUCT")]
       ELSE req' = [req EXCEPT ![p].pc = "items", ![p].tries = @ + 1,
                       ![p].inserted = @ \cup {row.id},
                       ![p].sale = [NoSale EXCEPT !.id = row.id]]
    /\ UNCHANGED sale_items

\* Both create handlers: one insert into sales with the generated code.
CreateInsert(p) ==
    /\ req[p].kind \in {"scan_create", "pos_create"} /\ req[p].pc = "insert"
    /\ \/ /\ UniqueViolation(req[p].code)
          /\ NoFault
          /\ CreateInsertFailed(p, DupCodeMsg)
       \/ \E msg \in OtherInsertMsgs : Fault /\ CreateInsertFailed(p, msg)
       \/ /\ ~ UniqueViolation(req[p].code)
          /\ NoFault
          /\ CreateInserted(p, IF req[p].kind = "scan_create"
                               THEN ScanSaleRow(req[p].code)
                               ELSE ManualSaleRow(req[p].code, req[p].uid))
    /\ UNCHANGED <<shop_settings, products, started>>

\* Mutant of CreateItems: a price the client sent is stored as the unit
\* price.
CreateItems_TrustsClient(p) ==
    /\ req[p].kind \in {"scan_create", "pos_create"} /\ req[p].pc = "items"
    /\ \/ /\ Fault
          /\ Return(p, Resp(400, "sale_items insert failed", "ITEMS_INSERT_FAILED"))
          /\ UNCHANGED sale_items
       \/ LET rows == {IF req[p].clientPrice = 0 THEN r
                       ELSE [r EXCEPT !.unit_price_at_time = req[p].clientPrice,
                                      !.line_total = req[p].clientPrice * r.qty] :
                          r \in Payload(req[p].items, req[p].priceMap, req[p].sale.id)}
          IN /\ NoFault
             /\ sale_items' = sale_items \cup rows
             /\ req' = [req EXCEPT ![p].pc = "done", ![p].itemRows = Cardinality(rows),
                           ![p].resp = Resp(200, "", "OK")]
    /\ UNCHANGED <<sales, shop_settings, products, started>>

CreateItems_Rollback(p) ==
    /\ req[p].kind \in {"scan_create", "pos_create"} /\ req[p].pc = "items"
    /\ \/ /\ Fault
          /\ Return(p, Resp(400, "sale_items insert failed", "ITEMS_INSERT_FAILED"))
          /\ sales' = SubSeq(sales, 1, Len(sales) - 1)
          /\ UNCHANGED sale_items
       \/ LET rows == Payload(req[p].items, req[p].priceMap, req[p].sale.id)
          IN /\ NoFault
             /\ sale_items' = sale_items \cup rows
             /\ req' = [req EXCEPT ![p].pc = "done", ![p].itemRows = Cardinality(rows),
                           ![p].resp = Resp(200, "", "OK")]
             /\ UNCHANGED sales
    /\ UNCHANGED <<shop_settings, products, started>>

\* Both create handlers: the batch insert into sale_items.
CreateItems(p) ==
    /\ req[p].kind \in {"scan_create", "pos_create"} /\ req[p].pc = "items"
    /\ \/ /\ Fault
          /\ Return(p, Resp(400, "sale_items insert failed", "ITEMS_INSERT_FAILED"))
          /\ UNCHANGED sale_items
       \/ LET rows == Payload(req[p].items, req[p].priceMap, req[p].sale.id)
          IN /\ NoFault
             /\ sale_items' = sale_items \cup rows
             /\ req' = [req EXCEPT ![p].pc = "done", ![p].itemRows = Cardinality(rows),
                           ![p].resp = Resp(200, "", "OK")]
    /\ UNCHANGED <<sales, shop_settings, products, started>>

\* ---------------------------------------------------- confirmation

\* String(x).toUpperCase() for the enum values the handlers write.
ToUpperCase(x) ==
    CASE x = "confirmed" -> "CONFIRMED"
      [] x = "pending" -> "PENDING"
      [] OTHER -> x

\* /api/scan/confirm receives a request: the session and body.code are
\* checked before the sale is read.
ScanConfirmStart(p, callers, codes) ==
    /\ req[p].pc = "idle"
    /\ Arrive
    /\ \E uid \in callers, code \in codes :
          IF uid = NoUser
          THEN req' = [req EXCEPT ![p] = [Idle EXCEPT !.kind = "scan_confirm",
                          !.code = code, !.seen = Statuses, !.pc = "done",
                          !.resp = Resp(401, "Unauthorized", "UNAUTHORIZED")]]
          ELSE IF code = EmptyCode
          THEN req' = [req EXCEPT ![p] = [Idle EXCEPT !.kind = "scan_confirm",
                          !.uid = uid, !.code = code, !.seen = Statuses, !.pc = "done",
                          !.resp = Resp(400, "Missing code.", "MISSING_CODE")]]
          ELSE req' = [req EXCEPT ![p] = [Idle EXCEPT !.kind = "scan_confirm",
                          !.uid = uid, !.code = code, !.seen = Statuses, !.pc = "load"]]
    /\ UNCHANGED <<tables, faults>>

\* Mutant of ConfirmGuard: the double-confirm check with && for || and
\* without toUpperCase.
ConfirmGuard_And(sale) ==
    IF sale.source # "CUSTOMER_SCAN" THEN "NOT_SCAN_SOURCE"
    ELSE IF sale.status = "PAID" /\ sale.payment_status = "CONFIRMED" THEN "ALREADY_CONFIRMED"
    ELSE ""

\* Mutant of ConfirmGuard: the double-confirm check before the source
\* check.
ConfirmGuard_StatusFirst(sale) ==
    IF ToUpperCase(sale.status) = "PAID"
       \/ ToUpperCase(sale.payment_status) = "CONFIRMED" THEN "ALREADY_CONFIRMED"
    ELSE IF sale.source # "CUSTOMER_SCAN" THEN "NOT_SCAN_SOURCE"
    ELSE ""

\* The checks on the row the load returned, in the order the handler makes
\* them; "" when the handler goes on to the update.
ConfirmGuard(sale) ==
    IF sale.source # "CUSTOMER_SCAN" THEN "NOT_SCAN_SOURCE"
    ELSE IF ToUpperCase(sale.status) = "PAID"
            \/ ToUpperCase(sale.payment_status) = "CONFIRMED" THEN "ALREADY_CONFIRMED"
    ELSE ""

\* Mutant of ScanConfirmLoad: the row is marked paid as it is read, before
\* the checks.
ScanConfirmLoad_UpdateFirst(p) ==
    /\ req[p].kind = "scan_confirm" /\ req[p].pc = "load"
    /\ \/ Fault /\ Return(p, Resp(400, TimeoutMsg, "LOAD_ERROR")) /\ UNCHANGED sales
       \/ LET rows == RowsWithCode(req[p].code) IN
          /\ NoFault
          /\ sales' = [i \in 1 .. Len(sales) |->
                          IF i \in rows
                          THEN [sales[i] EXCEPT !.status = "PAID",
                                                !.payment_status = "CONFIRMED",
                                                !.staff_id = req[p].uid]
                          ELSE sales[i]]
          /\ IF Cardinality(rows) > 1
             THEN Return(p, Resp(400, MultiRowMsg, "LOAD_ERROR"))
             ELSE IF rows = {}
             THEN Return(p, Resp(404, "Code not found.", "CODE_NOT_FOUND"))
             ELSE LET sale == sales[CHOOSE i \in rows : TRUE] IN
                  IF ConfirmGuard(sale) = "NOT_SCAN_SOURCE"
                  THEN Return(p, Resp(400, "Not a scan checkout code.", "NOT_SCAN_SOURCE"))
                  ELSE IF ConfirmGuard(sale) = "ALREADY_CONFIRMED"
                  THEN Return(p, Resp(409, "This code has already been used.",
                                      "ALREADY_CONFIRMED"))
                  ELSE req' = [req EXCEPT ![p].pc = "update",
                                  ![p].sale = [id |-> sale.id, status |-> sale.status,
                                               payment_status |-> sale.payment_status,
                                               source |-> sale.source]]
    /\ UNCHANGED <<sale_items, shop_settings, products, started>>

\* /api/scan/confirm: "Load sale first", then the source check and the
\* double-confirm check on the row as loaded.
ScanConfirmLoad(p) ==
    /\ req[p].kind = "scan_confirm" /\ req[p].pc = "load"
    /\ \/ Fault /\ Return(p, Resp(400, TimeoutMsg, "LOAD_ERROR"))
       \/ LET rows == RowsWithCode(req[p].code) IN
          /\ NoFault
          /\ IF Cardinality(rows) > 1
             THEN Return(p, Resp(400, MultiRowMsg, "LOAD_ERROR"))
             ELSE IF rows = {}
             THEN Return(p, Resp(404, "Code not found.", "CODE_NOT_FOUND"))
             ELSE LET sale == sales[CHOOSE i \in rows : TRUE] IN
                  IF ConfirmGuard(sale) = "NOT_SCAN_SOURCE"
                  THEN Return(p, Resp(400, "Not a scan checkout code.", "NOT_SCAN_SOURCE"))
                  ELSE IF ConfirmGuard(sale) = "ALREADY_CONFIRMED"
                  THEN Return(p, Resp(409, "This code has already been used.",
                                      "ALREADY_CONFIRMED"))
                  ELSE req' = [req EXCEPT ![p].pc = "update",
                                  ![p].sale = [id |-> sale.id, status |-> sale.status,
                                               payment_status |-> sale.payment_status,
                                               source |-> sale.source]]
    /\ UNCHANGED <<tables, started>>

\* Mutant of ScanConfirmUpdate: the update of a row that is PAID by now puts
\* it back to PENDING.
ScanConfirmUpdate_Toggle(p) ==
    /\ req[p].kind = "scan_confirm" /\ req[p].pc = "update"
    /\ \/ /\ Fault
          /\ Return(p, Resp(400, TimeoutMsg, "UPDATE_ERROR"))
          /\ UNCHANGED sales
       \/ /\ NoFault
          /\ sales' = [i \in 1 .. Len(sales) |->
                          IF sales[i].id = req[p].sale.id
                          THEN [sales[i] EXCEPT !.status = IF @ = "PAID" THEN "PENDING"
                                                          ELSE "PAID",
                                                !.payment_status = "CONFIRMED",
                                                !.staff_id = req[p].uid]
                          ELSE sales[i]]
          /\ Return(p, Resp(200, "", "OK"))
    /\ UNCHANGED <<sale_items, shop_settings, products, started>>

\* /api/scan/confirm: "confirm payment", the update of the row with the
\* loaded id.
ScanConfirmUpdate(p) ==
    /\ req[p].kind = "scan_confirm" /\ req[p].pc = "update"
    /\ \/ /\ Fault
          /\ Return(p, Resp(400, TimeoutMsg, "UPDATE_ERROR"))
          /\ UNCHANGED sales
       \/ /\ NoFault
          /\ sales' = [i \in 1 .. Len(sales) |->
                          IF sales[i].id = req[p].sale.id
                          THEN [sales[i] EXCEPT !.status = "PAID",
                                                !.payment_status = "CONFIRMED",
                                                !.staff_id = req[p].uid]
                          ELSE sales[i]]
          /\ Return(p, Resp(200, "", "OK"))
    /\ UNCHANGED <<sale_items, shop_settings, products, started>>

\* /api/pos/confirm-scan receives a request.
PosConfirmScanStart(p, callers, codes) ==
    /\ req[p].pc = "idle"
    /\ Arrive
    /\ \E uid \in callers, code \in codes :
          IF uid = NoUser
          THEN req' = [req EXCEPT ![p] = [Idle EXCEPT !.kind = "pos_confirm_scan",
                          !.code = code, !.seen = Statuses, !.pc = "done",
                          !.resp = Resp(401, "Unauthorized", "UNAUTHORIZED")]]
          ELSE IF code = EmptyCode
          THEN req' = [req EXCEPT ![p] = [Idle EXCEPT !.kind = "pos_confirm_scan",
                          !.uid = uid, !.code = code, !.seen = Statuses, !.pc = "done",
                          !.resp = Resp(400, "Code required.", "MISSING_CODE")]]
          ELSE req' = [req EXCEPT ![p] = [Idle EXCEPT !.kind = "pos_confirm_scan",
                          !.uid = uid, !.code = code, !.seen = Statuses, !.pc = "update"]]
    /\ UNCHANGED <<tables, faults>>

\* /api/pos/confirm-scan: one update of the rows with the code, returning
\* the updated row.
PosConfirmScanUpdate(p) ==
    /\ req[p].kind = "pos_confirm_scan" /\ req[p].pc = "update"
    /\ \/ /\ Fault
          /\ Return(p, Resp(400, TimeoutMsg, "UPDATE_ERROR"))
          /\ UNCHANGED sales
       \/ LET rows == RowsWithCode(req[p].code) IN
          /\ NoFault
          /\ sales' = [i \in 1 .. Len(sales) |->
                          IF i \in rows
                          THEN [sales[i] EXCEPT !.status = "PAID",
                                                !.payment_status = "confirmed",
                                                !.staff_id = req[p].uid]
                          ELSE sales[i]]
          /\ IF Cardinality(rows) > 1
             THEN Return(p, Resp(400, MultiRowMsg, "UPDATE_ERROR"))
             ELSE IF rows = {}
             THEN Return(p, Resp(404, "Invalid code.", "CODE_NOT_FOUND"))
             ELSE req' = [req EXCEPT ![p].pc = "done", ![p].resp = Resp(200, "", "OK"),
                             ![p].sale = [NoSale EXCEPT !.id = CHOOSE i \in rows : TRUE]]
    /\ UNCHANGED <<sale_items, shop_settings, products, started>>

\* ------------------------------------------------------------ settings

\* /api/admin/settings/scan: an active admin sets the flag of row 1; the
\* update matches no row when the table is empty.
SettingsScan(enable) ==
    /\ shop_settings' = {[r EXCEPT !.enable_customer_scan = enable] : r \in shop_settings}
    /\ shop_settings' # shop_settings
    /\ UNCHANGED <<sales, sale_items, products, req, started, faults>>

\* -------------------------------------------------------------- lookup

\* A code of two characters.
ShortCode == 12

\* code.length after String(...).trim(): "" for a missing code, "0000" for
\* the code no sale has, six digits for a generated code.
CodeLength(code) ==
    CASE code = EmptyCode -> 0
      [] code = ShortCode -> 2
      [] code = UnknownCode -> 4
      [] OTHER -> 6

\* /api/scan/lookup receives a request; no session is required.
ScanLookupStart(p, codes) ==
    /\ req[p].pc = "idle"
    /\ Arrive
    /\ \E code \in codes :
          IF CodeLength(code) = 0 \/ CodeLength(code) < 4
          THEN req' = [req EXCEPT ![p] = [Idle EXCEPT !.kind = "scan_lookup",
                          !.code = code, !.seen = Statuses, !.pc = "done",
                          !.resp = Resp(400, "Invalid code.", "INVALID_CODE")]]
          ELSE req' = [req EXCEPT ![p] = [Idle EXCEPT !.kind = "scan_lookup",
                          !.code = code, !.seen = Statuses, !.pc = "load"]]
    /\ UNCHANGED <<tables, faults>>

\* Mutant of SaleItemsRead: the items are priced from the catalog as it is
\* when the sale is read.
SaleItemsRead_CurrentPrices(id) ==
    {[r EXCEPT !.unit_price_at_time = products[r.product_id],
               !.line_total = products[r.product_id] * r.qty] :
        r \in {x \in sale_items : x.sale_id = id}}

\* The nested select sale_items (id, product_id, qty, unit_price_at_time,
\* line_total, ...) of the lookup: the stored rows of the sale.
SaleItemsRead(id) == {r \in sale_items : r.sale_id = id}

\* Mutant of Paid: payment_status alone, compared as stored.
Paid_PaymentStatusOnly(sale) == sale.payment_status = "CONFIRMED"

\* paid: ps === "CONFIRMED" || st === "PAID", both upper-cased.
Paid(sale) ==
    ToUpperCase(sale.payment_status) = "CONFIRMED" \/ ToUpperCase(sale.status) = "PAID"

\* Mutant of ScanLookupLoad: the lookup without the source check.
ScanLookupLoad_AnySource(p) ==
    /\ req[p].kind = "scan_lookup" /\ req[p].pc = "load"
    /\ \/ Fault /\ Return(p, Resp(400, TimeoutMsg, "LOAD_ERROR"))
       \/ LET rows == RowsWithCode(req[p].code) IN
          /\ NoFault
          /\ IF Cardinality(rows) > 1
             THEN Return(p, Resp(400, MultiRowMsg, "LOAD_ERROR"))
             ELSE IF rows = {}
             THEN Return(p, Resp(404, "Code not found.", "CODE_NOT_FOUND"))
             ELSE LET sale == sales[CHOOSE i \in rows : TRUE] IN
                  req' = [req EXCEPT ![p].pc = "done",
                             ![p].resp = Resp(200, "", "OK"),
                             ![p].itemRows = Cardinality({r \in sale_items :
                                                            r.sale_id = sale.id}),
                             ![p].paid = Paid(sale),
                             ![p].lines = SaleItemsRead(sale.id),
                             ![p].sale = [id |-> sale.id, status |-> sale.status,
                                          payment_status |-> sale.payment_status,
                                          source |-> sale.source]]
    /\ UNCHANGED <<tables, started>>

ScanLookupLoad(p) ==
    /\ req[p].kind = "scan_lookup" /\ req[p].pc = "load"
    /\ \/ Fault /\ Return(p, Resp(400, TimeoutMsg, "LOAD_ERROR"))
       \/ LET rows == RowsWithCode(req[p].code) IN
          /\ NoFault
          /\ IF Cardinality(rows) > 1
             THEN Return(p, Resp(400, MultiRowMsg, "LOAD_ERROR"))
             ELSE IF rows = {}
             THEN Return(p, Resp(404, "Code not found.", "CODE_NOT_FOUND"))
             ELSE LET sale == sales[CHOOSE i \in rows : TRUE] IN
                  IF sale.source # "CUSTOMER_SCAN"
                  THEN Return(p, Resp(400, "This code is not a scan checkout.",
                                      "NOT_SCAN_SOURCE"))
                  ELSE req' = [req EXCEPT ![p].pc = "done",
                                  ![p].resp = Resp(200, "", "OK"),
                                  ![p].itemRows = Cardinality({r \in sale_items :
                                                                 r.sale_id = sale.id}),
                                  ![p].paid = Paid(sale),
                                  ![p].lines = SaleItemsRead(sale.id),
                                  ![p].sale = [id |-> sale.id, status |-> sale.status,
                                               payment_status |-> sale.payment_status,
                                               source |-> sale.source]]
    /\ UNCHANGED <<tables, started>>

\* ------------------------------------------------------------- catalog

\* The prices the admin sets.
Prices == {10, 12}

\* Mutant of UpdatePrice: the new price is written through to the items
\* sold.
UpdatePrice_Reprices(id, newPrice) ==
    /\ id \in DOMAIN products
    /\ products[id] # newPrice
    /\ products' = [products EXCEPT ![id] = newPrice]
    /\ sale_items' = {IF r.product_id = id
                      THEN [r EXCEPT !.unit_price_at_time = newPrice,
                                     !.line_total = newPrice * r.qty]
                      ELSE r : r \in sale_items}
    /\ UNCHANGED <<sales, shop_settings, req, started, faults>>

\* Dashboard updatePrice: products.update({price: newPrice}).eq("id", prod.id)
\* takes effect; a failed update changes nothing and is no step.
UpdatePrice(id, newPrice) ==
    /\ id \in DOMAIN products
    /\ products[id] # newPrice
    /\ products' = [products EXCEPT ![id] = newPrice]
    /\ UNCHANGED <<sales, sale_items, shop_settings, req, started, faults>>

\* ------------------------------------------------------------ POS page

\* (scanSale.sale_items || []).reduce((s, it) => s + Number(it.line_total || 0), 0)
RECURSIVE ScanTotal(_)
ScanTotal(lines) ==
    IF lines = {} THEN 0
    ELSE LET it == CHOOSE x \in lines : TRUE
         IN it.line_total + ScanTotal(lines \ {it})

\* ------------------------------------------------------------ middleware

\* A pathname is the sequence of its characters.
\* "/login"
PathLogin == <<"/", "l", "o", "g", "i", "n">>
\* "/scan"
PathScan == <<"/", "s", "c", "a", "n">>
\* "/api/scan/bootstrap"
PathBootstrap == <<"/", "a", "p", "i", "/", "s", "c", "a", "n", "/", "b", "o", "o", "t", "s", "t", "r", "a", "p">>
\* "/api/scan/create"
PathCreate == <<"/", "a", "p", "i", "/", "s", "c", "a", "n", "/", "c", "r", "e", "a", "t", "e">>
\* "/api/scan/lookup"
PathLookup == <<"/", "a", "p", "i", "/", "s", "c", "a", "n", "/", "l", "o", "o", "k", "u", "p">>
\* "/api/scan/confirm"
PathConfirm == <<"/", "a", "p", "i", "/", "s", "c", "a", "n", "/", "c", "o", "n", "f", "i", "r", "m">>
\* "/pos"
PathPos == <<"/", "p", "o", "s">>
\* "/admin/dashboard"
PathAdmin == <<"/", "a", "d", "m", "i", "n", "/", "d", "a", "s", "h", "b", "o", "a", "r", "d">>
\* "/change-password"
PathChangePassword == <<"/", "c", "h", "a", "n", "g", "e", "-", "p", "a", "s", "s", "w", "o", "r", "d">>
\* "/_next/static/a.js"
PathNextStatic == <<"/", "_", "n", "e", "x", "t", "/", "s", "t", "a", "t", "i", "c", "/", "a", ".", "j", "s">>
\* "/_next/data/a.json"
PathNextData == <<"/", "_", "n", "e", "x", "t", "/", "d", "a", "t", "a", "/", "a", ".", "j", "s", "o", "n">>
\* "/favicon.ico"
PathFavicon == <<"/", "f", "a", "v", "i", "c", "o", "n", ".", "i", "c", "o">>

Paths ==
    {PathLogin, PathScan, PathBootstrap, PathCreate, PathLookup, PathConfirm, PathPos,
     PathAdmin, PathChangePassword, PathNextStatic, PathNextData, PathFavicon}

\* pathname.startsWith(prefix)
StartsWith(pathname, prefix) ==
    Len(pathname) >= Len(prefix) /\ SubSeq(pathname, 1, Len(prefix)) = prefix

\* isPublicPath: "/login", "/scan...", "/_next...", "/favicon..."
IsPublicPath(pathname) ==
    \/ pathname = PathLogin
    \/ StartsWith(pathname, PathScan)
    \/ StartsWith(pathname, <<"/", "_", "n", "e", "x", "t">>)
    \/ StartsWith(pathname, <<"/", "f", "a", "v", "i", "c", "o", "n">>)

\* config.matcher: every path but those that begin with /_next/static,
\* /_next/image or /favicon.ico.
MatcherApplies(pathname) ==
    /\ ~ StartsWith(pathname, <<"/", "_", "n", "e", "x", "t", "/", "s", "t", "a", "t", "i", "c">>)
    /\ ~ StartsWith(pathname, <<"/", "_", "n", "e", "x", "t", "/", "i", "m", "a", "g", "e">>)
    /\ ~ StartsWith(pathname, PathFavicon)

\* The browser's session: no user, or a user with the profiles row the
\* middleware reads (a missing row reads as not active).
NoSession == [user |-> NoUser, active |-> FALSE, force_password_change |-> FALSE, role |-> ""]
Sessions ==
    { NoSession,
      [user |-> "s1", active |-> TRUE, force_password_change |-> FALSE, role |-> "STAFF"],
      [user |-> "s2", active |-> TRUE, force_password_change |-> TRUE, role |-> "ADMIN"] }

\* NextResponse.next()
PassThrough == <<>>

\* middleware(req): PassThrough, or the pathname of the redirect.
Middleware(pathname, session) ==
    IF IsPublicPath(pathname) THEN PassThrough
    ELSE IF session.user = NoUser THEN PathLogin
    ELSE IF StartsWith(pathname, <<"/", "a", "d", "m", "i", "n">>) /\ ~ session.active
    THEN PathLogin
    ELSE IF StartsWith(pathname, <<"/", "a", "d", "m", "i", "n">>)
            /\ session.force_password_change
    THEN PathChangePassword
    ELSE IF StartsWith(pathname, <<"/", "a", "d", "m", "i", "n">>) /\ session.role # "ADMIN"
    THEN PathPos
    ELSE IF pathname # PathChangePassword /\ ~ session.active THEN PathLogin
    ELSE IF pathname # PathChangePassword /\ session.force_password_change
    THEN PathChangePassword
    ELSE PassThrough

\* Where a request for the pathname ends up: the middleware runs on the
\* paths its matcher selects.
Route(pathname, session) ==
    IF MatcherApplies(pathname) THEN Middleware(pathname, session) ELSE PassThrough

\* ------------------------------------------------------------ scan page

\* The cart the page posts: items of {product_id, qty} with qty >= 1.
PageLists == { << RawItem("A", JNum(1)) >> }

\* The browser opens a pathname with some session; /scan, when it is let
\* through, mounts ScanPage.
PageOpen(pathname, session) ==
    /\ ~ page.open /\ page.nav = NoNav
    /\ LET to == Route(pathname, session) IN
       page' = [page EXCEPT !.session = session,
                            !.nav = [path |-> pathname, to |-> to],
                            !.open = (pathname = PathScan /\ to = PassThrough),
                            !.redirected = IF to = PassThrough THEN {} ELSE {pathname}]
    /\ UNCHANGED <<tables, req, started, faults>>

\* The bootstrap effect: fetch("/api/scan/bootstrap").  A redirected GET is
\* followed to a page of HTML: res.ok holds and res.json() fails, so json
\* is {} and Boolean(json.enabled) is false.
PageBootstrap ==
    /\ page.open /\ page.enabled = "null"
    /\ IF Route(PathBootstrap, page.session) = PassThrough
       THEN page' = [page EXCEPT !.enabled =
                        IF \E r \in shop_settings : r.enable_customer_scan
                        THEN "true" ELSE "false"]
       ELSE page' = [page EXCEPT !.enabled = "false",
                                 !.redirected = @ \cup {PathBootstrap}]
    /\ UNCHANGED <<tables, req, started, faults>>

\* submit(): the products are loaded, the cart is not empty and the button
\* is not disabled; setBusy(true) and the POST to /api/scan/create, which
\* the middleware lets through, arrives in slot p.
PageSubmit(p) ==
    /\ page.open /\ page.enabled = "true" /\ ~ page.busy
    /\ Route(PathCreate, page.session) = PassThrough
    /\ ScanCreateStart(p, PageLists)
    /\ page' = [page EXCEPT !.busy = TRUE, !.slot = p]

\* submit() after the await: an error response sets err; otherwise
\* setCode(json.code) and setSaleState("pending").  The effect of the
\* previous code stays alive until React runs its cleanup.
PageSubmitDone(p) ==
    /\ page.slot = p /\ req[p].pc = "done"
    /\ Finish(p)
    /\ IF req[p].resp.status = 200
       THEN page' = [page EXCEPT !.code = req[p].code, !.saleState = "pending",
                                 !.okAfter = FALSE, !.busy = FALSE, !.slot = 0]
       ELSE page' = [page EXCEPT !.busy = FALSE, !.slot = 0]

\* React runs the poll effect for a changed code: the cleanup of the
\* previous effect (alive = false, clearInterval), then, unless code is
\* null, a new effect with its own alive flag.
PageEffect ==
    /\ page.open /\ page.effCode # page.code
    /\ page' = [page EXCEPT !.effCode = page.code,
                            !.eff = IF page.code = EmptyCode THEN 0 ELSE page.effs + 1,
                            !.effs = IF page.code = EmptyCode THEN @ ELSE @ + 1]
    /\ UNCHANGED <<tables, req, started, faults>>

\* clearCode(), the click on "New order": setCode(null),
\* setSaleState("unknown"); the effects of a click are flushed with it.
PageClear ==
    /\ page.open /\ page.code # EmptyCode
    /\ page' = [page EXCEPT !.code = EmptyCode, !.saleState = "unknown",
                            !.okAfter = FALSE, !.effCode = EmptyCode, !.eff = 0]
    /\ UNCHANGED <<tables, req, started, faults>>

\* The poll's effect is alive.
Alive(k) == k.eff = page.eff

\* tick(), called by the effect and by its interval: the fetch of
\* /api/scan/lookup?code=<code of the effect>.  after: the sale was already
\* confirmed when the poll was issued.
PollSend ==
    /\ page.open /\ page.eff # 0 /\ page.issued < MaxPolls
    /\ page' = [page EXCEPT
                  !.issued = @ + 1,
                  !.polls = @ \cup {[id |-> page.issued + 1, code |-> page.effCode,
                                     eff |-> page.eff, stage |-> "sent",
                                     ok |-> FALSE, ret |-> "",
                                     payment_status |-> "", status |-> "", paid |-> FALSE,
                                     after |-> \E i \in RowsWithCode(page.effCode) :
                                                  sales[i].status = "PAID"]}]
    /\ UNCHANGED <<tables, req, started, faults>>

\* The response of GET /api/scan/lookup to the code: res.ok and the fields
\* of the JSON body.
LookupJson(code) ==
    LET rows == RowsWithCode(code)
        no(ret) == [ok |-> FALSE, ret |-> ret, payment_status |-> "", status |-> "",
                    paid |-> FALSE]
    IN IF CodeLength(code) = 0 \/ CodeLength(code) < 4 THEN no("INVALID_CODE")
       ELSE IF Cardinality(rows) > 1 THEN no("LOAD_ERROR")
       ELSE IF rows = {} THEN no("CODE_NOT_FOUND")
       ELSE LET sale == sales[CHOOSE i \in rows : TRUE] IN
            IF sale.source # "CUSTOMER_SCAN" THEN no("NOT_SCAN_SOURCE")
            ELSE [ok |-> TRUE, ret |-> "OK", payment_status |-> sale.payment_status,
                  status |-> sale.status, paid |-> Paid(sale)]

\* The poll reaches the server: the middleware, then the lookup's one read.
\* A redirected GET is followed to a page of HTML: res.ok and json = {}.
PollServe(k) ==
    /\ k \in page.polls /\ k.stage = "sent"
    /\ LET json == IF Route(PathLookup, page.session) = PassThrough
                   THEN LookupJson(k.code)
                   ELSE [ok |-> TRUE, ret |-> "REDIRECTED", payment_status |-> "",
                         status |-> "", paid |-> FALSE]
       IN page' = [page EXCEPT
                     !.polls = (@ \ {k}) \cup
                               {[k EXCEPT !.stage = "answered", !.ok = json.ok,
                                          !.ret = json.ret,
                                          !.payment_status = json.payment_status,
                                          !.status = json.status, !.paid = json.paid]},
                     !.redirected = IF json.ret = "REDIRECTED"
                                    THEN @ \cup {PathLookup} ELSE @]
    /\ UNCHANGED <<tables, req, started, faults>>

\* String(x).toLowerCase() for the enum values the handlers write.
ToLowerCase(x) ==
    CASE x = "CONFIRMED" -> "confirmed"
      [] x = "PENDING" -> "pending"
      [] x = "PAID" -> "paid"
      [] OTHER -> x

\* raw.includes(sub) for the lower-cased enum values.
RawIncludes(raw, sub) ==
    CASE sub = "confirm" -> raw \in {"confirmed", "confirm"}
      [] sub = "paid" -> raw \in {"paid", "unpaid"}
      [] sub = "pend" -> raw \in {"pending", "pend"}
      [] sub = "unpaid" -> raw = "unpaid"
      [] OTHER -> raw = sub

\* Mutant of TickState: only a payment_status of exactly "paid" shows paid.
TickState_ExactPaid(json) ==
    LET raw == ToLowerCase(IF json.payment_status # "" THEN json.payment_status
                           ELSE json.status)
    IN IF ~ json.ok THEN "unknown"
       ELSE IF raw = "paid" THEN "paid"
       ELSE IF RawIncludes(raw, "pend") \/ RawIncludes(raw, "unpaid") \/ raw = "confirmed"
       THEN "pending"
       ELSE "unknown"

\* tick() on a response: "unknown" unless res.ok; else from
\* String(json.payment_status || json.status || "").toLowerCase().
TickState(json) ==
    LET raw == ToLowerCase(IF json.payment_status # "" THEN json.payment_status
                           ELSE json.status)
    IN IF ~ json.ok THEN "unknown"
       ELSE IF RawIncludes(raw, "confirm") \/ RawIncludes(raw, "paid") THEN "paid"
       ELSE IF RawIncludes(raw, "pend") \/ RawIncludes(raw, "unpaid") THEN "pending"
       ELSE "unknown"

\* Mutant of PollReceive: a response never changes saleState.
PollReceive_Dropped(k) ==
    /\ k \in page.polls /\ k.stage = "answered"
    /\ page' = [page EXCEPT !.polls = @ \ {k},
                            !.last = IF Alive(k)
                                     THEN [id |-> k.id, code |-> k.code, paid |-> k.paid]
                                     ELSE @,
                            !.okAfter = @ \/ (Alive(k) /\ k.ret = "OK" /\ k.after)]
    /\ UNCHANGED <<tables, req, started, faults>>

\* tick() after the awaits: nothing if the effect is no longer alive,
\* otherwise setSaleState from the response.
PollReceive(k) ==
    /\ k \in page.polls /\ k.stage = "answered"
    /\ IF Alive(k)
       THEN page' = [page EXCEPT !.polls = @ \ {k},
                                 !.saleState = TickState(k),
                                 !.last = [id |-> k.id, code |-> k.code, paid |-> k.paid],
                                 !.okAfter = @ \/ (k.ret = "OK" /\ k.after)]
       ELSE page' = [page EXCEPT !.polls = @ \ {k}]
    /\ UNCHANGED <<tables, req, started, faults>>

\* tick()'s catch: the fetch threw; "unknown" if the effect is alive.
PollFail(k) ==
    /\ k \in page.polls /\ k.stage = "sent"
    /\ IF Alive(k)
       THEN page' = [page EXCEPT !.polls = @ \ {k}, !.saleState = "unknown"]
       ELSE page' = [page EXCEPT !.polls = @ \ {k}]
    /\ UNCHANGED <<tables, req, started, faults>>

\* ------------------------------------------------------ specifications

\* The codes a confirmation request can carry.
RequestCodes == CodeSpace \cup {UnknownCode, EmptyCode}

\* A step of the handler in slot p, its request drawn from the given inputs.
HandlerStep(p, creators, confirmers, lists, codes) ==
    \/ ScanCreateStart(p, lists)
    \/ ScanCreateSettings(p)
    \/ PosCreateStart(p, creators, lists)
    \/ CreatePrices(p)
    \/ CreateGenCode(p)
    \/ CreateInsert(p)
    \/ CreateItems(p)
    \/ ScanConfirmStart(p, confirmers, codes)
    \/ ScanConfirmLoad(p)
    \/ ScanConfirmUpdate(p)
    \/ PosConfirmScanStart(p, confirmers, codes)
    \/ PosConfirmScanUpdate(p)
    \/ Finish(p)

\* Requests processed one after another: one slot, every input, storage
\* faults and the admin's switch.
NextSeq ==
    \/ HandlerStep(1, {"s1", NoUser}, Staff \cup {NoUser}, ItemLists, RequestCodes)
       /\ UNCHANGED page
    \/ \E enable \in BOOLEAN : SettingsScan(enable) /\ UNCHANGED page

SpecSeq == Init /\ [][NextSeq]_vars

\* Requests in flight together: every slot, signed-in callers with a
\* well-formed cart, no storage fault of its own.
InitConc ==
    /\ InitTables
    /\ faults = MaxFaults
    /\ \E r \in shop_settings : r.enable_customer_scan

Next ==
    \E p \in Procs :
        /\ HandlerStep(p, {"s1"}, Staff, { << RawItem("A", JNum(2)) >> }, CodeSpace)
        /\ UNCHANGED page

Spec == InitConc /\ [][Next]_vars

\* The carts of the ledger runs: three items, of which the filter drops
\* one, and one item on which the client has put a price and a total of its
\* own.
LedgerLists ==
    { << RawItem("A", JNum(2)), RawItem("A", JNum(0)), RawItem("A", JNum(1)) >>,
      << RawItemPriced("A", JNum(2), 1) >> }

\* The whole ledger, one request at a time: sales are created, looked up and
\* confirmed while the admin edits the price of the product; scan checkout is
\* on and the storage layer fails no statement.
NextLedger ==
    \/ HandlerStep(1, {"s1"}, Staff, LedgerLists, CodeSpace \cup {UnknownCode})
       /\ UNCHANGED page
    \/ ScanLookupStart(1, CodeSpace \cup {UnknownCode, ShortCode}) /\ UNCHANGED page
    \/ ScanLookupLoad(1) /\ UNCHANGED page
    \/ \E id \in DOMAIN products, newPrice \in Prices :
          UpdatePrice(id, newPrice) /\ UNCHANGED page

SpecLedger == InitConc /\ [][NextLedger]_vars

\* The customer's page and the till: the page's requests and the staff's
\* confirmations share one slot; scan checkout is on, no storage fault.
ServerStep(p) ==
    \/ ScanCreateSettings(p)
    \/ CreatePrices(p)
    \/ CreateGenCode(p)
    \/ CreateInsert(p)
    \/ CreateItems(p)
    \/ ScanConfirmStart(p, {"s1"}, CodeSpace)
    \/ ScanConfirmLoad(p)
    \/ ScanConfirmUpdate(p)
    \/ page.slot # p /\ Finish(p)

NextPage ==
    \/ ServerStep(1) /\ UNCHANGED page
    \/ \E pathname \in Paths, session \in Sessions : PageOpen(pathname, session)
    \/ PageBootstrap
    \/ PageSubmit(1)
    \/ PageSubmitDone(1)
    \/ PageEffect
    \/ PageClear
    \/ PollSend
    \/ \E k \in page.polls : PollServe(k)
    \/ \E k \in page.polls : PollReceive(k)
    \/ \E k \in page.polls : PollFail(k)

SpecPage == InitConc /\ [][NextPage]_vars

\* The interval keeps calling tick, React runs pending effects, the server
\* answers a request it has received and the browser delivers the answer.
SpecPageLive ==
    /\ SpecPage
    /\ WF_vars(PageEffect)
    /\ WF_vars(PollSend)
    /\ WF_vars(\E k \in page.polls : PollServe(k))
    /\ WF_vars(\E k \in page.polls : PollReceive(k))

\* ---------------------------------------------------------------- claims

IsCreate(r) == r.kind \in {"scan_create", "pos_create"}
\* The sales rows with the code of the request in slot p.
Target(p) == RowsWithCode(req[p].code)
\* The sales that were PAID / PENDING when the request in slot p arrived.
SeenPaid(p) == {i \in 1 .. Len(req[p].seen) : req[p].seen[i] = "PAID"}
SeenPending(p) == {i \in 1 .. Len(req[p].seen) : req[p].seen[i] = "PENDING"}

\* C1: two /api/scan/confirm requests for the code of the same PENDING scan
\* sale, both received while the sale was PENDING and run concurrently, never
\* both succeed: when both have answered, one answered ok and the other
\* ALREADY_CONFIRMED.
C1_ExactlyOneConfirms ==
    \A p, q \in Procs :
        (/\ p # q
         /\ req[p].kind = "scan_confirm" /\ req[q].kind = "scan_confirm"
         /\ req[p].pc = "done" /\ req[q].pc = "done"
         /\ req[p].code = req[q].code
         /\ \E i \in Target(p) : i \in SeenPending(p) /\ i \in SeenPending(q))
        => {req[p].resp.ret, req[q].resp.ret} = {"OK", "ALREADY_CONFIRMED"}

\* C2: a /api/scan/confirm request received after the scan sale with its
\* code was confirmed never succeeds, and answers ALREADY_CONFIRMED whenever
\* it gets as far as the check (its caller is signed in and its read of the
\* sale does not fail).
C2_AtMostOnce ==
    \A p \in Procs :
        (/\ req[p].kind = "scan_confirm" /\ req[p].pc = "done"
         /\ \E i \in Target(p) : i \in SeenPaid(p) /\ sales[i].source = "CUSTOMER_SCAN")
        => /\ req[p].resp.ret \in {"ALREADY_CONFIRMED", "UNAUTHORIZED", "LOAD_ERROR"}
           /\ (req[p].uid # NoUser /\ req[p].resp.ret # "LOAD_ERROR"
                 => req[p].resp = Resp(409, "This code has already been used.",
                                       "ALREADY_CONFIRMED"))

\* Scenario B: a second confirmation of a sale a first one confirmed is
\* answered ALREADY_CONFIRMED.
C2_Witness ==
    \E i \in 1 .. Len(sales) :
        /\ req[1].kind = "scan_confirm" /\ req[1].pc = "done"
        /\ req[1].resp.ret = "ALREADY_CONFIRMED"
        /\ i \in Target(1) /\ i \in SeenPaid(1)
        /\ sales[i].source = "CUSTOMER_SCAN" /\ sales[i].payment_status = "CONFIRMED"

\* C3: any two distinct sales that are both PENDING have different codes.
C3_PendingCodesDistinct ==
    \A i, j \in 1 .. Len(sales) :
        (i # j /\ sales[i].status = "PENDING" /\ sales[j].status = "PENDING")
        => sales[i].public_code # sales[j].public_code

\* Two PENDING sales at the same instant, created by requests in flight
\* together.
C3_Witness ==
    /\ Len(sales) = 2
    /\ sales[1].status = "PENDING" /\ sales[2].status = "PENDING"
    /\ \A p \in Procs : req[p].kind = "scan_create" /\ req[p].inserted # {}

\* C4: an insert that meets a code taken since it was generated leaves no
\* row and does not end the request: the handler is back at the head of
\* the retry loop with one more attempt counted and no response.
C4_LoserRetries ==
    [][\A p \in Procs :
          (/\ IsCreate(req[p]) /\ req[p].pc = "insert"
           /\ req[p].codeFree /\ UniqueViolation(req[p].code)
           /\ req'[p] # req[p])
          => /\ sales' = sales
             /\ req'[p].pc = "gen"
             /\ req'[p].attempt = req[p].attempt + 1
             /\ req'[p].resp = NoResp]_vars

\* Two requests raced for one code; the loser retried and both ended with a
\* sale, under distinct codes.
C4_Witness ==
    \E p, q \in Procs :
        /\ p # q
        /\ IsCreate(req[p]) /\ IsCreate(req[q])
        /\ req[p].resp.ret = "OK" /\ req[q].resp.ret = "OK"
        /\ req[p].lostRace /\ req[p].tries = 2 /\ req[q].tries = 1
        /\ \E i \in req[p].inserted, j \in req[q].inserted :
              sales[i].public_code # sales[j].public_code

\* C5: a create request never makes a seventh insert attempt; one that
\* ends RETRY_EXHAUSTED has made exactly 6, each after a call of genCode,
\* and has inserted no sales row; and one whose sixth insert was rejected
\* for the code ends RETRY_EXHAUSTED with that error.
C5_RetryBound ==
    \A p \in Procs :
        IsCreate(req[p]) =>
            /\ req[p].tries <= MaxAttempts
            /\ req[p].tries <= req[p].gens
            /\ (req[p].resp.ret = "RETRY_EXHAUSTED"
                  => /\ req[p].tries = MaxAttempts /\ req[p].gens = MaxAttempts
                     /\ req[p].inserted = {} /\ req[p].itemRows = 0)
            /\ (req[p].pc = "insert" => req[p].tries < MaxAttempts)
            /\ ((/\ req[p].pc = "done" /\ req[p].tries = MaxAttempts
                 /\ req[p].inserted = {} /\ req[p].lastErr = DupCodeMsg)
                  => req[p].resp = Resp(400, DupCodeMsg, "RETRY_EXHAUSTED"))

\* Every code is taken, all six inserts were rejected for the code, and the
\* request ended RETRY_EXHAUSTED.
C5_Witness ==
    \E p \in Procs :
        /\ IsCreate(req[p]) /\ req[p].resp.ret = "RETRY_EXHAUSTED"
        /\ req[p].resp.error = DupCodeMsg
        /\ faults = 0
        /\ \A code \in CodeSpace : UniqueViolation(code)

\* C6 (as claimed): only a uniqueness violation on public_code makes a create
\* handler retry; an insert that failed with any other error has ended the
\* request on that attempt, with that error as the response.
C6_OnlyCodeCollisionRetries ==
    \A p \in Procs :
        IsCreate(req[p]) /\ req[p].lastErr # "" /\ req[p].lastErr # DupCodeMsg
        => /\ req[p].pc = "done"
           /\ req[p].resp = Resp(400, req[p].lastErr, "INSERT_ERROR")

C8_MissingProductWritesNothing ==
    \A p \in Procs :
        (IsCreate(req[p]) /\ req[p].resp.ret = "MISSING_PRODUCT")
        => /\ req[p].inserted = {}
           /\ req[p].itemRows = 0

\* C9: the step that answers a create request with INVALID_ITEMS or
\* SCAN_DISABLED changes no row of sales or sale_items, and the request has
\* attempted no insert and written no row before it.
C9_RejectedBeforeAnyWrite ==
    [][\A p \in Procs :
          (/\ IsCreate(req'[p])
           /\ req'[p].resp.ret \in {"INVALID_ITEMS", "SCAN_DISABLED"})
          => /\ sales' = sales /\ sale_items' = sale_items
             /\ req'[p].tries = 0
             /\ req'[p].inserted = {}
             /\ req'[p].itemRows = 0]_vars

\* Scenario C and D after a sale exists: the request was rejected and the
\* tables hold the one sale and its items.
C9_Witness ==
    \E p \in Procs :
        /\ IsCreate(req[p]) /\ req[p].resp.ret \in {"INVALID_ITEMS", "SCAN_DISABLED"}
        /\ started = 2 /\ Len(sales) = 1
        /\ \E r \in sale_items : r.sale_id = 1

\* C10: when /api/scan/create reads the settings and the row is absent or
\* its flag is false, the request ends there with SCAN_DISABLED and no sale
\* is inserted.
C10_ScanDisabled ==
    [][\A p \in Procs :
          (/\ req[p].kind = "scan_create" /\ req[p].pc = "settings"
           /\ req'[p] # req[p] /\ faults' = faults
           /\ ~ \E r \in shop_settings : r.enable_customer_scan)
          => /\ req'[p].pc = "done"
             /\ req'[p].resp = Resp(403, "Scan checkout is turned off.", "SCAN_DISABLED")
             /\ req'[p].inserted = {}
             /\ sales' = sales /\ sale_items' = sale_items]_vars

\* The admin switched scan checkout off after a scan sale was created; the
\* next scan request was answered SCAN_DISABLED.
C10_Witness ==
    \E p \in Procs :
        /\ req[p].kind = "scan_create" /\ req[p].resp.ret = "SCAN_DISABLED"
        /\ \E r \in shop_settings : ~ r.enable_customer_scan
        /\ \E i \in 1 .. Len(sales) : sales[i].source = "CUSTOMER_SCAN"

\* The sale_items rows of sale i.
ItemsOf(i) == {r \in sale_items : r.sale_id = i}

\* C11: a /api/pos/create request never reads the scan switch: it is never
\* at the settings read and never answered SCAN_DISABLED, and when the
\* storage layer failed no statement and no insert was rejected its result
\* and its rows are those the caller, the items and the catalog determine,
\* whatever shop_settings holds.
C11_ManualIgnoresFlag ==
    \A p \in Procs :
        req[p].kind = "pos_create" =>
            /\ req[p].pc # "settings"
            /\ req[p].resp.ret # "SCAN_DISABLED"
            /\ (req[p].pc = "done" /\ faults = 0 /\ req[p].lastErr = "") =>
                  IF req[p].uid = NoUser
                  THEN req[p].resp.ret = "UNAUTHORIZED" /\ req[p].inserted = {}
                  ELSE IF Len(req[p].items) = 0
                  THEN req[p].resp.ret = "INVALID_ITEMS" /\ req[p].inserted = {}
                  ELSE IF \E i \in 1 .. Len(req[p].items) :
                             req[p].items[i].product_id \notin DOMAIN products
                  THEN req[p].resp.ret = "MISSING_PRODUCT"
                  ELSE /\ req[p].resp.ret = "OK"
                       /\ \E i \in req[p].inserted :
                             /\ req[p].inserted = {i}
                             /\ sales[i].source = "STAFF_MANUAL"
                             /\ Cardinality(ItemsOf(i)) = Len(req[p].items)

\* Scan checkout is switched off and a manual sale was created with its
\* item.
C11_Witness ==
    \E p \in Procs, i \in 1 .. Len(sales) :
        /\ req[p].kind = "pos_create" /\ req[p].resp.ret = "OK"
        /\ req[p].inserted = {i} /\ ItemsOf(i) # {}
        /\ started = 1
        /\ \E r \in shop_settings : ~ r.enable_customer_scan

\* C12: when the insert into sale_items fails, the create request ends
\* there with ITEMS_INSERT_FAILED, without another insert attempt; the sales
\* row it inserted stays in the table and has no item.
C12_ItemsFailureOrphansSale ==
    [][\A p \in Procs :
          (/\ IsCreate(req[p]) /\ req[p].pc = "items"
           /\ req'[p] # req[p] /\ faults' # faults)
          => /\ req'[p].pc = "done"
             /\ req'[p].resp = Resp(400, "sale_items insert failed", "ITEMS_INSERT_FAILED")
             /\ req'[p].tries = req[p].tries
             /\ sales' = sales /\ sale_items' = sale_items
             /\ req'[p].inserted = {req[p].sale.id}
             /\ req[p].sale.id \in 1 .. Len(sales')
             /\ ~ \E r \in sale_items' : r.sale_id = req[p].sale.id]_vars

\* The request was answered ITEMS_INSERT_FAILED and its sale is in the
\* table without items.
C12_Witness ==
    \E p \in Procs, i \in 1 .. Len(sales) :
        /\ IsCreate(req[p]) /\ req[p].resp.ret = "ITEMS_INSERT_FAILED"
        /\ req[p].inserted = {i} /\ ItemsOf(i) = {}

\* C13: a create request has inserted at most one sales row; one answered
\* ok has inserted exactly one, with one sale_items row per item that passed
\* the filter; and the table never holds more sales than requests were
\* received, so a rejected insert left no row.
C13_OneSalePerRequest ==
    /\ Len(sales) <= started
    /\ \A p \in Procs :
          IsCreate(req[p]) =>
              /\ Cardinality(req[p].inserted) <= 1
              /\ req[p].inserted \subseteq 1 .. Len(sales)
              /\ req[p].resp.ret = "OK" =>
                    \E i \in req[p].inserted :
                        /\ req[p].inserted = {i}
                        /\ req[p].itemRows = Len(req[p].items)
                        /\ Cardinality(ItemsOf(i)) = Len(req[p].items)

\* The second request met the first sale's code twice, was answered ok on
\* its third insert, and the table holds one sale per request.
C13_Witness ==
    \E p \in Procs :
        /\ IsCreate(req[p]) /\ req[p].resp.ret = "OK"
        /\ req[p].tries = 3 /\ Cardinality(req[p].inserted) = 1
        /\ started = 2 /\ Len(sales) = 2

IsConfirm(r) == r.kind \in {"scan_confirm", "pos_confirm_scan"}

\* C14: the row a create request inserts carries the request's code and,
\* from /api/scan/create, source CUSTOMER_SCAN, status PENDING,
\* payment_status PENDING and no staff_id; from /api/pos/create, source
\* STAFF_MANUAL, status PAID, payment_status CONFIRMED and the caller as
\* staff_id.
C14_InitialFields ==
    [][\A p \in Procs :
          (IsCreate(req[p]) /\ req'[p] # req[p] /\ Len(sales') # Len(sales))
          => /\ Len(sales') = Len(sales) + 1
             /\ LET row == sales'[Len(sales')] IN
                /\ row.public_code = req[p].code
                /\ row.id \in req'[p].inserted
                /\ IF req[p].kind = "scan_create"
                   THEN /\ row.source = "CUSTOMER_SCAN"
                        /\ row.status = "PENDING"
                        /\ row.payment_status = "PENDING"
                        /\ row.staff_id = NoUser
                   ELSE /\ row.source = "STAFF_MANUAL"
                        /\ row.status = "PAID"
                        /\ row.payment_status = "CONFIRMED"
                        /\ row.staff_id = req[p].uid
                        /\ row.staff_id \in Staff]_vars

\* A sale of each flow is in the table as inserted.
C14_Witness ==
    /\ Len(sales) = 2
    /\ sales[1].source = "CUSTOMER_SCAN" /\ sales[1].status = "PENDING"
    /\ sales[1].staff_id = NoUser
    /\ sales[2].source = "STAFF_MANUAL" /\ sales[2].status = "PAID"
    /\ sales[2].staff_id = "s1"

\* C15 (as claimed): every sale has status PAID exactly when it has
\* payment_status CONFIRMED.
C15_StatusFieldsAgree ==
    \A i \in 1 .. Len(sales) :
        (sales[i].status = "PAID") <=> (sales[i].payment_status = "CONFIRMED")

\* C16: no sale is removed, every sale is PENDING or PAID, and the status
\* of a sale changes only from PENDING to PAID, in the update step of a
\* confirmation request for its code that is answered ok.
C16_OnlyPendingToPaid ==
    [][/\ Len(sales') >= Len(sales)
       /\ \A i \in 1 .. Len(sales') : sales'[i].status \in {"PENDING", "PAID"}
       /\ \A i \in 1 .. Len(sales) :
             sales'[i].status # sales[i].status
             => /\ sales[i].status = "PENDING" /\ sales'[i].status = "PAID"
                /\ \E p \in Procs :
                      /\ IsConfirm(req[p]) /\ req[p].pc = "update"
                      /\ req[p].code = sales[i].public_code
                      /\ req'[p].resp.ret = "OK"]_vars

\* Every request has been received: the first sale was confirmed and
\* is PAID, the second was never confirmed and is PENDING.
C16_Witness ==
    /\ started = MaxRequests /\ Len(sales) = 2
    /\ \A p \in Procs : req[p].pc \in {"idle", "done"}
    /\ sales[1].source = "CUSTOMER_SCAN" /\ sales[1].status = "PAID"
    /\ sales[2].source = "CUSTOMER_SCAN" /\ sales[2].status = "PENDING"

\* C17 (as claimed): a scan sale that is PENDING has no staff_id, and a
\* staff_id that a confirmation has set is never changed by a later step.
C17_StaffIdWrittenOnce ==
    [][\A i \in 1 .. Len(sales) :
          sales[i].source = "CUSTOMER_SCAN"
          => /\ sales'[i].status = "PENDING" => sales'[i].staff_id = NoUser
             /\ sales[i].staff_id # NoUser => sales'[i].staff_id = sales[i].staff_id]_vars

\* C18: no step removes a sales or sale_items row or changes a sale_items
\* row; id, public_code and source of a sale never change; at most one sale
\* changes in a step, and only in the update step of a confirmation request
\* for its code that is answered ok; new sale_items rows belong to the sale
\* the creating request inserted; and no step of a lookup request and no
\* price edit changes sales or sale_items.
C18_Frame ==
    [][/\ Len(sales') >= Len(sales)
       /\ sale_items \subseteq sale_items'
       /\ \A r \in sale_items' \ sale_items :
             \E p \in Procs : IsCreate(req[p]) /\ req[p].pc = "items"
                               /\ r.sale_id = req[p].sale.id
       /\ \A i \in 1 .. Len(sales) :
             /\ sales'[i].id = sales[i].id
             /\ sales'[i].public_code = sales[i].public_code
             /\ sales'[i].source = sales[i].source
             /\ sales'[i] # sales[i]
                => /\ \E p \in Procs :
                         /\ IsConfirm(req[p]) /\ req[p].pc = "update"
                         /\ req[p].code = sales[i].public_code
                         /\ req'[p].resp.ret = "OK"
                   /\ \A j \in 1 .. Len(sales) : sales'[j] # sales[j] => j = i
       /\ (\E p \in Procs : req'[p].kind = "scan_lookup" /\ req'[p] # req[p])
          => tables' = tables
       /\ products' # products
          => sales' = sales /\ sale_items' = sale_items]_vars

\* After the sale was created at price 10 and confirmed, the price was set
\* to 12 and a lookup returned the sale: paid, its item still at 10.
C18_Witness ==
    \E p \in Procs :
        /\ req[p].kind = "scan_lookup" /\ req[p].resp.ret = "OK"
        /\ Paid(req[p].sale)
        /\ products["A"] = 12
        /\ \E r \in ItemsOf(req[p].sale.id) : r.unit_price_at_time = 10

\* C19: when /api/scan/confirm reads a sale the manual flow created, the
\* request ends there with NOT_SCAN_SOURCE, though the sale is PAID, and
\* no row changes.
C19_ManualSaleNotConfirmable ==
    [][\A p \in Procs :
          (/\ req[p].kind = "scan_confirm" /\ req[p].pc = "load"
           /\ req'[p] # req[p] /\ faults' = faults
           /\ \E i \in Target(p) : sales[i].source = "STAFF_MANUAL")
          => /\ req'[p].pc = "done"
             /\ req'[p].resp = Resp(400, "Not a scan checkout code.", "NOT_SCAN_SOURCE")
             /\ sales' = sales /\ sale_items' = sale_items]_vars

\* A confirmation of a manual sale's code was answered NOT_SCAN_SOURCE; the
\* sale is PAID, as inserted.
C19_Witness ==
    \E p \in Procs, i \in 1 .. Len(sales) :
        /\ req[p].kind = "scan_confirm" /\ req[p].resp.ret = "NOT_SCAN_SOURCE"
        /\ i \in Target(p)
        /\ sales[i] = [ManualSaleRow(req[p].code, "s1") EXCEPT !.id = i]

\* C20: every step of a /api/scan/confirm request other than the one that
\* answers ok leaves sales and sale_items as they were, and only the ok
\* answer has status 200.
C20_FailedConfirmWritesNothing ==
    [][\A p \in Procs :
          (req'[p].kind = "scan_confirm" /\ req'[p] # req[p])
          => /\ req'[p].resp.ret # "OK" => sales' = sales /\ sale_items' = sale_items
             /\ req'[p].resp.status = 200 <=> req'[p].resp.ret = "OK"]_vars

\* A confirmation with a code no sale has was answered CODE_NOT_FOUND while
\* a PENDING sale is in the table.
C20_Witness ==
    \E p \in Procs :
        /\ req[p].kind = "scan_confirm" /\ req[p].resp.ret = "CODE_NOT_FOUND"
        /\ req[p].code = UnknownCode
        /\ \E i \in 1 .. Len(sales) : sales[i].status = "PENDING"

\* C21 (as claimed): a lookup with a code too short is answered
\* INVALID_CODE; with a well-formed code it returns the sale that has the
\* code whenever one exists, whatever its source and status, and is answered
\* CODE_NOT_FOUND only when none exists.
C21_LookupFindsAnySale ==
    \A p \in Procs :
        (req[p].kind = "scan_lookup" /\ req[p].pc = "done") =>
            IF CodeLength(req[p].code) < 4
            THEN req[p].resp.ret = "INVALID_CODE"
            ELSE IF Target(p) = {}
            THEN req[p].resp.ret = "CODE_NOT_FOUND"
            ELSE req[p].resp.ret = "OK" /\ req[p].sale.id \in Target(p)

\* C21 (amended): a lookup with a code too short is answered 400 "Invalid
\* code."; with a code no sale has, 404 CODE_NOT_FOUND; with the code of a
\* sale of the manual flow, 400 "This code is not a scan checkout."; with
\* the code of a scan sale, whatever its status, the sale and its items.
C21_LookupFindsScanSale ==
    \A p \in Procs :
        (req[p].kind = "scan_lookup" /\ req[p].pc = "done") =>
            IF CodeLength(req[p].code) < 4
            THEN req[p].resp = Resp(400, "Invalid code.", "INVALID_CODE")
            ELSE IF Target(p) = {}
            THEN req[p].resp = Resp(404, "Code not found.", "CODE_NOT_FOUND")
            ELSE \E i \in Target(p) :
                    IF sales[i].source # "CUSTOMER_SCAN"
                    THEN req[p].resp = Resp(400, "This code is not a scan checkout.",
                                            "NOT_SCAN_SOURCE")
                    ELSE /\ req[p].resp = Resp(200, "", "OK")
                         /\ req[p].sale.id = i
                         /\ req[p].sale.status = sales[i].status
                         /\ req[p].lines = ItemsOf(i)

\* A lookup with the code of a manual sale was answered 400, and the sale
\* is in the table.
C21_Witness ==
    \E p \in Procs, i \in 1 .. Len(sales) :
        /\ req[p].kind = "scan_lookup" /\ req[p].resp.ret = "NOT_SCAN_SOURCE"
        /\ i \in Target(p) /\ sales[i].source = "STAFF_MANUAL"

\* C22: the paid flag of a lookup response is true exactly when the row
\* read has payment_status CONFIRMED or status PAID: false for a scan sale
\* as created, true for every lookup received after the sale was confirmed.
C22_PaidFlag ==
    \A p \in Procs :
        (req[p].kind = "scan_lookup" /\ req[p].resp.ret = "OK") =>
            \E i \in Target(p) :
                /\ req[p].paid <=> (\/ sales[i].payment_status = "CONFIRMED"
                                    \/ sales[i].status = "PAID")
                /\ req[p].paid <=> (\/ req[p].sale.payment_status = "CONFIRMED"
                                    \/ req[p].sale.status = "PAID")
                /\ sales[i] = [ScanSaleRow(req[p].code) EXCEPT !.id = i] => ~ req[p].paid
                /\ i \in SeenPaid(p) => req[p].paid

\* A lookup of a sale confirmed through /api/pos/confirm-scan shows it
\* paid.
C22_Witness ==
    \E p \in Procs, i \in 1 .. Len(sales) :
        /\ req[p].kind = "scan_lookup" /\ req[p].resp.ret = "OK"
        /\ i \in Target(p) /\ i \in SeenPaid(p)
        /\ sales[i].payment_status = "confirmed"
        /\ req[p].paid

\* C23: the prices a create request reads are the catalog's at that step
\* and stay with the request; the rows it inserts carry, for each item, the
\* price read for its product and that price times the quantity; so every
\* stored price is a catalog price, whatever price the client sent.
C23_ServerSidePrices ==
    [][\A p \in Procs :
          IsCreate(req[p]) =>
              /\ (req[p].pc = "prices" /\ req'[p].pc = "gen")
                 => \A m \in req'[p].priceMap : m.price = products[m.id]
              /\ (req[p].pc \in {"gen", "insert", "items"} /\ IsCreate(req'[p]))
                 => req'[p].priceMap = req[p].priceMap
              /\ req[p].pc = "items"
                 => \A r \in sale_items' \ sale_items :
                       /\ r.unit_price_at_time \in Prices
                       /\ \E m \in req[p].priceMap :
                             /\ m.id = r.product_id
                             /\ r.unit_price_at_time = m.price
                             /\ r.line_total = m.price * r.qty]_vars

\* Two sales of the same item at the same catalog price, the second from a
\* request on which the client put a price of 1: both stored 10 and 20.
C23_Witness ==
    \E p \in Procs :
        /\ IsCreate(req[p]) /\ req[p].resp.ret = "OK"
        /\ req[p].clientPrice = 1 /\ req[p].inserted = {2}
        /\ products["A"] = 10
        /\ \A r \in ItemsOf(2) : r.unit_price_at_time = 10 /\ r.line_total = 20
        /\ \E r \in ItemsOf(1) : r.qty = 2 /\ r.unit_price_at_time = 10 /\ r.line_total = 20

\* C24: once a sale has its items, no step changes them, a price edit least
\* of all; and a lookup returns the items as stored.
C24_PriceSnapshot ==
    [][/\ \A i \in 1 .. Len(sales) : ItemsOf(i) # {} => ItemsOf(i)' = ItemsOf(i)
       /\ products' # products => sale_items' = sale_items
       /\ \A p \in Procs :
             (req[p].kind = "scan_lookup" /\ req'[p].resp.ret = "OK")
             => req'[p].lines = ItemsOf(req'[p].sale.id)]_vars

\* The sale was created at 10, the price was set to 12 and back to 10 or
\* left at 12, and a lookup shows the item at 10 with the catalog at 12.
C24_Witness ==
    \E p \in Procs :
        /\ req[p].kind = "scan_lookup" /\ req[p].resp.ret = "OK"
        /\ products["A"] = 12
        /\ req[p].lines # {}
        /\ \A r \in req[p].lines : r.unit_price_at_time = 10 /\ r.line_total = 10 * r.qty

\* The sum of qty * unit_price_at_time over a set of sale_items rows.
RECURSIVE SumOfProducts(_)
SumOfProducts(rows) ==
    IF rows = {} THEN 0
    ELSE LET r == CHOOSE x \in rows : TRUE
         IN r.qty * r.unit_price_at_time + SumOfProducts(rows \ {r})

\* C25: every sale_items row has qty > 0 and line_total = qty *
\* unit_price_at_time, and the total the POS page computes from a lookup
\* response is the sum over the sale's stored items.
C25_LineTotals ==
    /\ \A r \in sale_items :
          r.qty > 0 /\ r.line_total = r.qty * r.unit_price_at_time
    /\ \A p \in Procs :
          (req[p].kind = "scan_lookup" /\ req[p].resp.ret = "OK")
          => ScanTotal(req[p].lines) = SumOfProducts(ItemsOf(req[p].sale.id))

\* A sale of two items, 2 and 1 of the product at 10, is looked up: the
\* total is 30.
C25_Witness ==
    \E p \in Procs :
        /\ req[p].kind = "scan_lookup" /\ req[p].resp.ret = "OK"
        /\ Cardinality(req[p].lines) = 2
        /\ ScanTotal(req[p].lines) = 30

\* C28 (as claimed): no step changes status, payment_status or staff_id of
\* a sale that is PAID or whose source is not CUSTOMER_SCAN.
C28_NoWriteOnPaidOrManual ==
    [][\A i \in 1 .. Len(sales) :
          (sales[i].status = "PAID" \/ sales[i].source # "CUSTOMER_SCAN")
          => /\ sales'[i].status = sales[i].status
             /\ sales'[i].payment_status = sales[i].payment_status
             /\ sales'[i].staff_id = sales[i].staff_id]_vars

\* The sale the page tracks has been confirmed.
TrackedPaid(c) == page.code = c /\ \E i \in RowsWithCode(c) : sales[i].status = "PAID"

\* C26: no step that sends, serves, loses or receives a poll changes sales
\* or sale_items; and when the tracked sale has been confirmed, then the
\* page comes to show paid, or the tracked code changes, or every poll has
\* ended without the response of one issued after the confirmation having
\* been applied.
C26_EventuallyShowsPaid ==
    /\ [][page'.polls # page.polls => sales' = sales /\ sale_items' = sale_items]_vars
    /\ \A c \in CodeSpace :
          (TrackedPaid(c) /\ ~ page.okAfter)
          ~> \/ page.saleState = "paid"
             \/ page.code # c
             \/ page.issued = MaxPolls /\ page.polls = {} /\ ~ page.okAfter

\* The first poll was lost or answered before the confirmation; the second,
\* issued after it, has been applied and the page shows paid.
C26_Witness ==
    /\ \E c \in CodeSpace : TrackedPaid(c) /\ page.last.code = c
    /\ page.okAfter /\ page.last.id = MaxPolls /\ page.polls = {}
    /\ page.saleState = "paid"

\* C27: when the response of a poll that the lookup answered ok is applied,
\* the page shows paid exactly if the response's paid flag holds, and never
\* pending if it holds.
C27_ShowsPaidIffPaid ==
    [][\A k \in page.polls :
          (k \notin page'.polls /\ k.stage = "answered" /\ k.ret = "OK" /\ Alive(k))
          => /\ page'.saleState = "paid" <=> k.paid
             /\ page'.saleState = "pending" => ~ k.paid]_vars

\* The response last applied was for the tracked code and said paid; the
\* sale is stored PAID and CONFIRMED and the page shows paid.
C27_Witness ==
    /\ page.last.id # 0 /\ page.last.paid /\ page.last.code = page.code
    /\ page.saleState = "paid"
    /\ \E i \in RowsWithCode(page.code) :
          sales[i].status = "PAID" /\ sales[i].payment_status = "CONFIRMED"

\* C29 (as claimed): a step that ends a poll for a code other than the
\* tracked one leaves the displayed sale state as it was.
C29_StaleResponseIgnored ==
    [][\A k \in page.polls :
          (k \notin page'.polls /\ k.code # page.code)
          => page'.saleState = page.saleState]_vars

\* The paths of the self-checkout flow.
SelfCheckoutPaths == {PathScan, PathBootstrap, PathCreate, PathLookup}

\* C30 (as claimed): without a session no request of the page to /scan,
\* /api/scan/bootstrap, /api/scan/create or /api/scan/lookup is redirected,
\* and a navigation to any other path that is not public is sent to /login.
C30_SelfCheckoutWithoutSession ==
    page.session = NoSession
    => /\ page.redirected \cap SelfCheckoutPaths = {}
       /\ (/\ page.nav # NoNav
           /\ page.nav.path \notin SelfCheckoutPaths
           /\ ~ IsPublicPath(page.nav.path)) => page.nav.to = PathLogin

====
